---- MODULE Spec2Model ----
(***************************************************************************)
(* Model of mgraphics_image_rendering.js: a jsui script that draws its     *)
(* content once into an off-screen MGraphics context upscaled by imgScale, *)
(* keeps the result as an Image (cachedImg) and composites it under the    *)
(* inverse scale on every paint, until a handler disposes of it.           *)
(*                                                                         *)
(* Numbers are exact rationals <<n, d>> (d > 0, lowest terms).  The host   *)
(* runs every handler and paint() to completion on one thread, so each     *)
(* function is one action.                                                 *)
(***************************************************************************)
EXTENDS Integers, Sequences, FiniteSets, TLC

VARIABLES
    cachedImg,        \* the stored Image, or NoImage (null)
    imgScale,         \* the scale factor used for the cached Image
    idle,             \* mouseover flag, 0 or 1
    useImage,         \* draw through the Image (TRUE) or directly (FALSE)
    size,             \* mgraphics.size, supplied by the host
    matrix,           \* transform matrix of the on-screen mgraphics context
    redrawRequested,  \* mgraphics.redraw() was called and not yet serviced
    imgSerial,        \* identity the next new Image() object gets
    last,             \* the last function the host ran, with the calls it made
    run,              \* observer: the current run of consecutive paints
    scaleDirty,       \* observer: scale changed under a populated cache
    stale,            \* observer: an invalidating handler ran since the build
    toggle,           \* observer: direct_draw(true), direct_draw(false) sequence
    hover             \* observer: onidle, paint, onidleout, paint sequence

vars == <<cachedImg, imgScale, idle, useImage, size, matrix, redrawRequested,
          imgSerial, last, run, scaleDirty, stale, toggle, hover>>

-----------------------------------------------------------------------------
(* Bounds of the exploration.                                              *)

\* host sizes are k * (100, 50) for k in 1..MaxSizeStep
MaxSizeStep == 2

\* observers count paints and builds up to MaxCount, then saturate
MaxCount == 3

-----------------------------------------------------------------------------
(* Exact rational arithmetic.                                              *)

Abs(n) == IF n < 0 THEN -n ELSE n

RECURSIVE Gcd(_, _)
Gcd(a, b) ==
    IF b = 0 THEN a ELSE CHOOSE g \in {Gcd(y, x % y) : x \in {a}, y \in {b}} : TRUE

Rat(n, d) ==
    LET s == IF d < 0 THEN -1 ELSE 1
    IN  CHOOSE r \in {<<(s * n) \div g, (s * d) \div g>> : g \in {Gcd(Abs(n), Abs(d))}} : TRUE

Whole(n) == <<n, 1>>

RMul(p, q) == Rat(p[1] * q[1], p[2] * q[2])
RAdd(p, q) == Rat(p[1] * q[2] + q[1] * p[2], p[2] * q[2])
RSub(p, q) == Rat(p[1] * q[2] - q[1] * p[2], p[2] * q[2])
RDiv(p, q) == Rat(p[1] * q[2], p[2] * q[1])
RLe(p, q)  == p[1] * q[2] <= q[1] * p[2]

MathMax(p, q) == IF RLe(p, q) THEN q ELSE p
MathMin(p, q) == IF RLe(p, q) THEN p ELSE q

-----------------------------------------------------------------------------
(* Transform matrices of an MGraphics context (scale and translation).     *)

Identity == [xx |-> Whole(1), yy |-> Whole(1), x0 |-> Whole(0), y0 |-> Whole(0)]

scale(m, sx, sy) == [m EXCEPT !.xx = RMul(@, sx), !.yy = RMul(@, sy)]

translate(m, tx, ty) ==
    [m EXCEPT !.x0 = RAdd(@, RMul(m.xx, tx)), !.y0 = RAdd(@, RMul(m.yy, ty))]

identity_matrix_keep(m) == m

identity_matrix(m) == Identity

set_matrix_reset(m, mtx) == Identity

set_matrix(m, mtx) == mtx

-----------------------------------------------------------------------------
(* Values the host supplies.                                               *)

NoImage == [w |-> Whole(0), h |-> Whole(0), scale |-> Whole(0), id |-> -1]

Sizes == {<<Whole(100 * k), Whole(50 * k)>> : k \in 1..MaxSizeStep}

\* arguments of the "float" message: below, inside and above the range
FloatInputs == {Rat(-1, 1), Rat(1, 100), Rat(1, 2), Whole(2), Whole(10)}

\* arguments of the "int" message
IntInputs == {0, 3, 10}

\* arguments of the "direct_draw" message
DrawInputs == {Whole(0), Whole(1), Whole(2), Rat(1, 2)}

SatInc(n, by) == IF n + by > MaxCount THEN MaxCount ELSE n + by

-----------------------------------------------------------------------------
(* Calls made on the drawing contexts.  A drawing state holds the matrix   *)
(* of the on-screen context (vm), the matrix of the off-screen context     *)
(* (tm), the matrix saved by get_matrix() (mtx) and the calls made so far  *)
(* (tr), each recorded with the matrix in effect when it was made.         *)

MatrixOf(st, s) == IF s = "tmp_mg" THEN st.tm ELSE IF s = "mgraphics" THEN st.vm ELSE Identity

Cmd(op, a) == [op |-> op, a |-> a, c |-> "", img |-> NoImage]

Colour(c) == [op |-> "set_source_rgba", a |-> <<>>, c |-> c, img |-> NoImage]

Emit(st, s, cmd) ==
    CHOOSE y \in {[x EXCEPT !.tr = Append(@, [s |-> s, op |-> cmd.op, a |-> cmd.a,
                                              c |-> cmd.c, img |-> cmd.img,
                                              m |-> MatrixOf(x, s)])] : x \in {st}} : TRUE

\* the matrix of context s after the call cmd
MatrixAfter(st, s, cmd) ==
    CASE cmd.op = "new MGraphics"   -> Identity
      [] cmd.op = "scale"           -> scale(MatrixOf(st, s), cmd.a[1], cmd.a[2])
      [] cmd.op = "translate"       -> translate(MatrixOf(st, s), cmd.a[1], cmd.a[2])
      [] cmd.op = "identity_matrix" -> identity_matrix(MatrixOf(st, s))
      [] cmd.op = "set_matrix"      -> set_matrix(MatrixOf(st, s), st.mtx)
      [] OTHER                      -> MatrixOf(st, s)

\* one call on context s
Call(st, s, cmd) ==
    [Emit(st, s, cmd) EXCEPT
        !.vm  = IF s = "mgraphics" THEN MatrixAfter(st, s, cmd) ELSE @,
        !.tm  = IF s = "tmp_mg" THEN MatrixAfter(st, s, cmd) ELSE @,
        !.mtx = IF cmd.op = "get_matrix" THEN MatrixOf(st, s) ELSE @]

\* the calls cmds on context s, in order (x and c name the values of st and
\* cmds, so that each is worked out once)
RECURSIVE Calls(_, _, _)
Calls(st, s, cmds) ==
    IF cmds = <<>> THEN st
    ELSE CHOOSE y \in {Calls(Call(x, s, c[1]), s, Tail(c)) : x \in {st}, c \in {cmds}} : TRUE

outlet_left(st, n) == Emit(st, "outlet", Cmd("bang", <<Whole(0)>>))

\* outlet(n, "bang")
outlet(st, n) == Emit(st, "outlet", Cmd("bang", <<Whole(n)>>))

r_size == 5

-----------------------------------------------------------------------------
(* drawStuff(mg): the sample drawing, in 1x coordinates, into context mg.  *)
(* Geometry comes from the on-screen size, never from mg's own size.       *)
(* The y of move_to also depends on the host's text_measure and is left    *)
(* out of the recorded arguments.                                          *)

drawStuff(st, mg) ==
    LET _size == size
    IN  outlet(Calls(st, mg,
            << Cmd("set_line_width", <<Whole(1)>>),
               Cmd("get_matrix", <<>>),
               Cmd("translate", <<Rat(3, 2), Rat(3, 2)>>),
               Cmd("rectangle", <<Whole(0), Whole(0),
                                  RSub(_size[1], Whole(3)), RSub(_size[2], Whole(3))>>),
               Colour("live_lcd_bg"),
               Cmd("fill_preserve", <<>>),
               Colour("live_lcd_control_fg"),
               Cmd("stroke", <<>>),
               Cmd("set_matrix", <<>>),
               Cmd("select_font_face", <<>>),
               Cmd("set_font_size", <<Whole(10)>>),
               Cmd("text_measure", <<>>),
               Cmd("move_to", <<Whole(5)>>),
               Colour("live_lcd_control_fg_alt"),
               Cmd("show_text", <<>>) >>), 1)

-----------------------------------------------------------------------------
(* The parts of paint().                                                   *)

Background(st) ==
    Calls(st, "mgraphics",
        << Cmd("rectangle", <<Whole(0), Whole(0), size[1], size[2]>>),
           Colour("live_lcd_bg"),
           Cmd("fill", <<>>) >>)

NeedsBuildAlways(img) == TRUE

\* if ( ! cachedImg )
NeedsBuild(img) == img = NoImage

OffscreenSizeUnscaled(sz, s) == <<sz[1], sz[2]>>

\* mgraphics.size[0] * imgScale, mgraphics.size[1] * imgScale
OffscreenSize(sz, s) == <<RMul(sz[1], s), RMul(sz[2], s)>>

\* new Image(tmp_mg): the snapshot of the off-screen context, which has the
\* pixel size it was made with and was drawn under the scale of its matrix
NewImage(st, dim) ==
    [w |-> dim[1], h |-> dim[2], scale |-> MatrixOf(st, "tmp_mg").xx, id |-> imgSerial]

Stored(st, dim) ==
    CHOOSE y \in {[st  |-> Emit(x, "tmp_mg", [Cmd("new Image", <<>>) EXCEPT
                                                 !.img = NewImage(x, dim)]),
                   img |-> NewImage(x, dim)] : x \in {st}} : TRUE

\* new MGraphics(...); tmp_mg.scale(imgScale, imgScale); drawStuff(tmp_mg);
\* cachedImg = new Image(tmp_mg).  Yields the drawing state and the Image.
BuildImage(st) ==
    Stored(drawStuff(Calls(st, "tmp_mg",
                        << Cmd("new MGraphics", OffscreenSize(size, imgScale)),
                           Cmd("scale", <<imgScale, imgScale>>) >>), "tmp_mg"),
           OffscreenSize(size, imgScale))

\* scale(1/imgScale, 1/imgScale); image_surface_draw(cachedImg); identity_matrix()
Composite(st, img) ==
    Calls(st, "mgraphics",
        << Cmd("scale", <<RDiv(Whole(1), imgScale), RDiv(Whole(1), imgScale)>>),
           [Cmd("image_surface_draw", <<>>) EXCEPT !.img = img],
           Cmd("identity_matrix", <<>>) >>)

\* the indicator drawn when the mouse is over the jsui
Indicator(st) ==
    Calls(st, "mgraphics",
        << Colour("live_active_automation"),
           Cmd("rectangle", <<RSub(size[1], Whole(2 * r_size)),
                              RDiv(RSub(size[2], Whole(r_size)), Whole(2)),
                              Whole(r_size), Whole(r_size)>>),
           Cmd("fill", <<>>) >>)

\* if ( idle ) { ... }  outlet(0, "bang")
Finish(st, img) ==
    [st |-> outlet(IF idle # 0 THEN Indicator(st) ELSE st, 0), img |-> img]

\* if ( useImage ) { if ( ! cachedImg ) {...} ... } else { drawStuff(mgraphics) }
Draw(st) ==
    IF useImage
    THEN IF NeedsBuild(cachedImg)
         THEN CHOOSE y \in {Finish(Composite(b.st, b.img), b.img) : b \in {BuildImage(st)}} : TRUE
         ELSE Finish(Composite(st, cachedImg), cachedImg)
    ELSE Finish(drawStuff(st, "mgraphics"), cachedImg)

\* The whole of paint(): the final drawing state and the value of cachedImg.
PaintResult ==
    Draw(Background([vm |-> matrix, tm |-> Identity, mtx |-> Identity, tr |-> <<>>]))

-----------------------------------------------------------------------------
(* What a recorded paint did.                                              *)

Count(tr, s, op) == Cardinality({i \in 1..Len(tr) : tr[i].s = s /\ tr[i].op = op})

Where(tr, s, op) == {i \in 1..Len(tr) : tr[i].s = s /\ tr[i].op = op}

\* runs of drawStuff: each ends with outlet(1, "bang")
Draws(tr) == Cardinality({i \in 1..Len(tr) : tr[i].s = "outlet" /\ tr[i].a = <<Whole(1)>>})

Allocs(tr) == Count(tr, "tmp_mg", "new MGraphics")

Builds(tr) == Count(tr, "tmp_mg", "new Image")

Composites(tr) == Where(tr, "mgraphics", "image_surface_draw")

\* the last call of the content part of a paint: identity_matrix() on the
\* cached path, the end of drawStuff(mgraphics) on the direct path
ContentEnd(tr) ==
    LET ends == {i \in 1..Len(tr) :
                    \/ tr[i].s = "mgraphics" /\ tr[i].op = "identity_matrix"
                    \/ tr[i].s = "outlet" /\ tr[i].a = <<Whole(1)>>}
    IN  IF ends = {} THEN 0 ELSE CHOOSE i \in ends : \A j \in ends : j <= i

ContentOf(tr) == SubSeq(tr, 1, ContentEnd(tr))

\* what is drawn on top of the content, before outlet(0, "bang")
Overlay(tr) == SubSeq(tr, ContentEnd(tr) + 1, Len(tr) - 1)

-----------------------------------------------------------------------------
(* Observers.                                                              *)

NoRun == [paints |-> 0, draws |-> 0, allocs |-> 0, miss0 |-> FALSE]

NoToggle == [stage |-> "none", paints |-> 0, builds |-> 0, allocs |-> 0]

NoHover == [stage |-> 0, img |-> NoImage, base |-> <<>>, draws |-> 0]

NoEntry == [cached |-> FALSE, miss |-> FALSE, dirty |-> FALSE, stale |-> FALSE]

Ran(op, arg) ==
    [op |-> op, arg |-> arg, tr |-> <<>>, m0 |-> matrix, redraws |-> 1, at |-> NoEntry]

-----------------------------------------------------------------------------
(* The state after the script is loaded.                                   *)

Init ==
    /\ cachedImg = NoImage
    /\ imgScale = Whole(2)
    /\ idle = 0
    /\ useImage = TRUE
    /\ size \in Sizes
    /\ matrix = Identity
    /\ redrawRequested = FALSE
    /\ imgSerial = 0
    /\ last = [Ran("init", <<>>) EXCEPT !.redraws = 0]
    /\ run = NoRun
    /\ scaleDirty = FALSE
    /\ stale = FALSE
    /\ toggle = NoToggle
    /\ hover = NoHover

-----------------------------------------------------------------------------
(* paint(), called by the host: after a redraw request, or on its own      *)
(* (first display, exposure, resize).                                      *)

Painted(r, tr, built) ==
    /\ cachedImg' = r.img
    /\ matrix' = r.st.vm
    /\ imgSerial' = IF built > 0 THEN 1 - imgSerial ELSE imgSerial
    /\ last' = [op |-> "paint", arg |-> <<>>, tr |-> tr, m0 |-> matrix, redraws |-> 0,
                at |-> [cached |-> useImage, miss |-> cachedImg = NoImage,
                        dirty |-> scaleDirty, stale |-> stale]]
    /\ run' = [paints |-> SatInc(run.paints, 1),
               draws  |-> SatInc(run.draws, Draws(tr)),
               allocs |-> SatInc(run.allocs, Allocs(tr)),
               miss0  |-> IF run.paints = 0 THEN cachedImg = NoImage ELSE run.miss0]
    /\ scaleDirty' = IF useImage THEN FALSE ELSE scaleDirty
    /\ stale' = IF built > 0 THEN FALSE ELSE stale
    /\ toggle' = IF toggle.stage = "back"
                 THEN [toggle EXCEPT !.paints = SatInc(@, 1),
                                     !.builds = SatInc(@, built),
                                     !.allocs = SatInc(@, Allocs(tr))]
                 ELSE toggle
    /\ hover' = CASE hover.stage = 1 ->
                       [hover EXCEPT !.stage = 2, !.base = tr, !.draws = Draws(tr)]
                  [] hover.stage = 3 ->
                       [hover EXCEPT !.stage = 4, !.draws = SatInc(@, Draws(tr))]
                  [] OTHER -> NoHover

\* a paint that ends with the drawing state and cached Image r (x names the
\* value of r); it serves the pending redraw request and sets no script variable
PaintStep(r) ==
    /\ redrawRequested' = FALSE
    /\ UNCHANGED <<imgScale, idle, useImage, size>>
    /\ \E x \in {r} : Painted(x, x.st.tr, Builds(x.st.tr))

paint == PaintStep(PaintResult)

-----------------------------------------------------------------------------
(* The message handlers.                                                   *)

ConstrainUpperOnly(v) == MathMin(Whole(8), v)

\* Math.max(0.125, Math.min(8, v))
Constrain(v) == MathMax(Rat(1, 8), MathMin(Whole(8), v))

msg_float_keep(v) ==
    /\ imgScale' = Constrain(v)
    /\ redrawRequested' = TRUE
    /\ last' = Ran("msg_float", v)
    /\ run' = NoRun
    /\ scaleDirty' = (scaleDirty \/ (Constrain(v) # imgScale /\ cachedImg # NoImage))
    /\ stale' = TRUE
    /\ toggle' = NoToggle
    /\ hover' = NoHover
    /\ UNCHANGED <<cachedImg, idle, useImage, size, matrix, imgSerial>>

msg_float(v) ==
    /\ imgScale' = Constrain(v)
    /\ cachedImg' = NoImage
    /\ redrawRequested' = TRUE
    /\ last' = Ran("msg_float", v)
    /\ run' = NoRun
    /\ scaleDirty' = (scaleDirty \/ (Constrain(v) # imgScale /\ cachedImg # NoImage))
    /\ stale' = TRUE
    /\ toggle' = NoToggle
    /\ hover' = NoHover
    /\ UNCHANGED <<idle, useImage, size, matrix, imgSerial>>

\* msg_int(v) calls msg_float(v) with the integer it was given
msg_int(v) == msg_float(Whole(v))

bang_keep ==
    /\ redrawRequested' = TRUE
    /\ last' = Ran("bang", <<>>)
    /\ run' = NoRun
    /\ stale' = TRUE
    /\ toggle' = IF toggle.stage = "back" THEN NoToggle ELSE toggle
    /\ hover' = NoHover
    /\ UNCHANGED <<cachedImg, imgScale, idle, useImage, size, matrix, imgSerial, scaleDirty>>

bang_reset ==
    /\ cachedImg' = NoImage
    /\ imgScale' = Whole(2)
    /\ redrawRequested' = TRUE
    /\ last' = Ran("bang", <<>>)
    /\ run' = NoRun
    /\ stale' = TRUE
    /\ toggle' = IF toggle.stage = "back" THEN NoToggle ELSE toggle
    /\ hover' = NoHover
    /\ UNCHANGED <<idle, useImage, size, matrix, imgSerial, scaleDirty>>

bang ==
    /\ cachedImg' = NoImage
    /\ redrawRequested' = TRUE
    /\ last' = Ran("bang", <<>>)
    /\ run' = NoRun
    /\ stale' = TRUE
    /\ toggle' = IF toggle.stage = "back" THEN NoToggle ELSE toggle
    /\ hover' = NoHover
    /\ UNCHANGED <<imgScale, idle, useImage, size, matrix, imgSerial, scaleDirty>>

onidle_clear ==
    /\ idle' = 1
    /\ cachedImg' = NoImage
    /\ redrawRequested' = TRUE
    /\ last' = Ran("onidle", <<>>)
    /\ run' = NoRun
    /\ hover' = [stage |-> 1, img |-> cachedImg, base |-> <<>>, draws |-> 0]
    /\ UNCHANGED <<imgScale, useImage, size, matrix, imgSerial, scaleDirty, stale, toggle>>

onidle ==
    /\ idle' = 1
    /\ redrawRequested' = TRUE
    /\ last' = Ran("onidle", <<>>)
    /\ run' = NoRun
    /\ hover' = [stage |-> 1, img |-> cachedImg, base |-> <<>>, draws |-> 0]
    /\ UNCHANGED <<cachedImg, imgScale, useImage, size, matrix, imgSerial,
                   scaleDirty, stale, toggle>>

onidleout_quiet ==
    /\ idle' = 0
    /\ last' = Ran("onidleout", <<>>)
    /\ run' = NoRun
    /\ hover' = IF hover.stage = 2 THEN [hover EXCEPT !.stage = 3] ELSE NoHover
    /\ UNCHANGED <<cachedImg, imgScale, useImage, size, matrix, imgSerial,
                   scaleDirty, stale, toggle, redrawRequested>>

onidleout ==
    /\ idle' = 0
    /\ redrawRequested' = TRUE
    /\ last' = Ran("onidleout", <<>>)
    /\ run' = NoRun
    /\ hover' = IF hover.stage = 2 THEN [hover EXCEPT !.stage = 3] ELSE NoHover
    /\ UNCHANGED <<cachedImg, imgScale, useImage, size, matrix, imgSerial,
                   scaleDirty, stale, toggle>>

\* parseInt of a number: the digits before the decimal point of its decimal
\* form, so the value truncated toward zero
parseInt(v) == IF v[1] < 0 THEN -((-v[1]) \div v[2]) ELSE v[1] \div v[2]

\* direct_draw with a true (non-zero) argument, then with a false (zero) one
ToggleAfter(v) ==
    IF v # Whole(0) THEN [NoToggle EXCEPT !.stage = "direct"]
    ELSE IF toggle.stage = "direct" THEN [NoToggle EXCEPT !.stage = "back"]
    ELSE NoToggle

direct_draw_keep(v) ==
    /\ useImage' = (parseInt(v) = 0)
    /\ redrawRequested' = TRUE
    /\ last' = Ran("direct_draw", v)
    /\ run' = NoRun
    /\ stale' = TRUE
    /\ toggle' = ToggleAfter(v)
    /\ hover' = NoHover
    /\ UNCHANGED <<cachedImg, imgScale, idle, size, matrix, imgSerial, scaleDirty>>

direct_draw(v) ==
    /\ useImage' = (parseInt(v) = 0)
    /\ cachedImg' = NoImage
    /\ redrawRequested' = TRUE
    /\ last' = Ran("direct_draw", v)
    /\ run' = NoRun
    /\ stale' = TRUE
    /\ toggle' = ToggleAfter(v)
    /\ hover' = NoHover
    /\ UNCHANGED <<imgScale, idle, size, matrix, imgSerial, scaleDirty>>

-----------------------------------------------------------------------------
(* The host resizes the jsui: mgraphics.size reads the new size from then  *)
(* on.  The script has no handler for it.                                  *)

Resize(sz) ==
    /\ sz # size
    /\ size' = sz
    /\ last' = [Ran("resize", sz) EXCEPT !.redraws = 0]
    /\ run' = NoRun
    /\ hover' = NoHover
    /\ UNCHANGED <<cachedImg, imgScale, idle, useImage, matrix, redrawRequested,
                   imgSerial, scaleDirty, stale, toggle>>

Next ==
    \/ paint
    \/ \E v \in FloatInputs : msg_float(v)
    \/ \E v \in IntInputs : msg_int(v)
    \/ bang
    \/ onidle
    \/ onidleout
    \/ \E v \in DrawInputs : direct_draw(v)
    \/ \E sz \in Sizes : Resize(sz)

Spec == Init /\ [][Next]_vars

-----------------------------------------------------------------------------
(* Properties.                                                             *)

InRange(s) == RLe(Rat(1, 8), s) /\ RLe(s, Whole(8))

Inverse(s) == RDiv(Whole(1), s)

CachedPaint == last.op = "paint" /\ last.at.cached

\* C1: two consecutive cached-mode paints, with no handler call and no size
\* change in between and the cache empty before the first, run drawStuff
\* exactly once in total and allocate one off-screen MGraphics: the second
\* paint neither draws nor allocates.
C1_TwoPaintsDrawOnce ==
    (useImage /\ run.paints = 2 /\ run.miss0 /\ InRange(imgScale)) =>
        /\ run.draws = 1
        /\ run.allocs = 1
        /\ last.op = "paint"
        /\ Draws(last.tr) = 0
        /\ Allocs(last.tr) = 0
        /\ Builds(last.tr) = 0
        /\ Composites(last.tr) # {}

C1_Witness == useImage /\ run.paints = 2 /\ run.miss0 /\ imgScale = Rat(1, 8)

\* C2: a present cachedImg was built at the current imgScale, and the image
\* a paint composites was built at the imgScale whose inverse is the scale
\* in effect when it is drawn.
C2_CacheBuiltAtCurrentScale ==
    /\ cachedImg # NoImage => cachedImg.scale = imgScale
    /\ last.op = "paint" =>
          \A i \in Composites(last.tr) :
              /\ last.tr[i].img # NoImage
              /\ last.tr[i].img.scale = imgScale
              /\ last.tr[i].m = scale(Identity, Inverse(imgScale), Inverse(imgScale))
              /\ RMul(last.tr[i].img.scale, last.tr[i].m.xx) = Whole(1)

C2_Witness ==
    /\ CachedPaint
    /\ ~last.at.miss
    /\ imgScale = Whole(3)
    /\ cachedImg # NoImage
    /\ Composites(last.tr) # {}

\* C3: once msg_float or msg_int has changed the scale while the cache was
\* populated, the next cached-mode paint runs drawStuff again and stores an
\* image built at the new scale.
C3_ScaleChangeRebuilds ==
    (CachedPaint /\ last.at.dirty) =>
        /\ last.at.miss
        /\ Draws(last.tr) = 1
        /\ Builds(last.tr) = 1
        /\ cachedImg # NoImage
        /\ cachedImg.scale = imgScale
        /\ \A i \in Composites(last.tr) : last.tr[i].img = cachedImg

C3_Witness == CachedPaint /\ last.at.dirty /\ imgScale = Rat(1, 2)

\* C4: an image that a paint composites has the pixel dimensions
\* (mgraphics.size[0] * imgScale, mgraphics.size[1] * imgScale) of the
\* current size, also when the size changed since the previous paint.
C4_CompositeMatchesCurrentSize ==
    last.op = "paint" =>
        \A i \in Composites(last.tr) :
            /\ last.tr[i].img.w = RMul(size[1], imgScale)
            /\ last.tr[i].img.h = RMul(size[2], imgScale)

\* C5: after a cached-mode paint the on-screen context has the matrix it had
\* when paint was entered, although the image was drawn under the inverse
\* scale.
C5_TransformRestored ==
    CachedPaint =>
        /\ matrix = last.m0
        /\ \A i \in Composites(last.tr) : last.tr[i].m.xx = Inverse(imgScale)

C5_Witness ==
    /\ CachedPaint
    /\ imgScale = Whole(8)
    /\ \E i \in Composites(last.tr) : last.tr[i].m # last.m0

\* C6: after msg_float(v) or msg_int(v) the stored imgScale is
\* min(8, max(0.125, v)); imgScale starts at 2 and always lies in [0.125, 8].
C6_ScaleClamped ==
    /\ InRange(imgScale)
    /\ last.op = "init" => imgScale = Whole(2)
    /\ last.op = "msg_float" =>
          imgScale = MathMin(Whole(8), MathMax(Rat(1, 8), last.arg))

C6_Witness == last.op = "msg_float" /\ last.arg = Rat(1, 100) /\ imgScale = Rat(1, 8)

\* C7: after direct_draw with a true argument and then with a false one,
\* with no scale change or refresh, the first cached-mode paint builds the
\* cache once, in a fresh off-screen context, and the cached-mode paints
\* after it do not.
C7_ToggleRebuildsOnce ==
    (toggle.stage = "back" /\ toggle.paints >= 1) =>
        /\ useImage
        /\ toggle.builds = 1
        /\ toggle.allocs = 1
        /\ cachedImg # NoImage

C7_Witness == toggle.stage = "back" /\ toggle.paints >= 2 /\ last.op = "paint"

\* C8: onidle and onidleout write the idle flag only; over onidle, paint,
\* onidleout, paint in cached mode with a populated cache, cachedImg stays
\* the same image, drawStuff is not run and the two paints differ in the
\* indicator only.
C8_HoverScenario ==
    (hover.stage = 4 /\ useImage /\ hover.img # NoImage) =>
        /\ cachedImg = hover.img
        /\ hover.draws = 0
        /\ ContentOf(last.tr) = ContentOf(hover.base)
        /\ Overlay(hover.base) # <<>>
        /\ Overlay(last.tr) = <<>>

C8_HandlerFrame ==
    last'.op \in {"onidle", "onidleout"} =>
        /\ UNCHANGED <<cachedImg, imgScale, useImage>>
        /\ idle' = IF last'.op = "onidle" THEN 1 ELSE 0

C8_HoverKeepsCache == []C8_HoverScenario /\ [][C8_HandlerFrame]_vars

C8_Witness == hover.stage = 4 /\ useImage /\ hover.img # NoImage

\* C9: a cache build allocates the off-screen context with the pixel size
\* (mgraphics.size[0] * imgScale, mgraphics.size[1] * imgScale), scales it by
\* imgScale once, as its first call, so that everything drawStuff draws is
\* under that scale; 200x100 at scale 2 gives 400x200, drawn under 1/2.
C9_OffscreenUpscaledScaledOnce ==
    last.op = "paint" =>
        \A i \in Where(last.tr, "tmp_mg", "new MGraphics") :
            /\ last.tr[i].a = <<RMul(size[1], imgScale), RMul(size[2], imgScale)>>
            /\ \A j \in 1..(i - 1) : last.tr[j].s # "tmp_mg"
            /\ last.tr[i + 1].s = "tmp_mg"
            /\ last.tr[i + 1].op = "scale"
            /\ last.tr[i + 1].a = <<imgScale, imgScale>>
            /\ last.tr[i + 1].m = Identity
            /\ Count(last.tr, "tmp_mg", "scale") = 1
            /\ \A j \in (i + 2)..Len(last.tr) :
                  last.tr[j].s = "tmp_mg" =>
                      last.tr[j].m.xx = imgScale /\ last.tr[j].m.yy = imgScale
            /\ cachedImg.w = last.tr[i].a[1] /\ cachedImg.h = last.tr[i].a[2]
            /\ (size = <<Whole(200), Whole(100)>> /\ imgScale = Whole(2)) =>
                  /\ last.tr[i].a = <<Whole(400), Whole(200)>>
                  /\ \A k \in Composites(last.tr) : last.tr[k].m.xx = Rat(1, 2)

C9_Witness ==
    /\ last.op = "paint"
    /\ Allocs(last.tr) = 1
    /\ size = <<Whole(200), Whole(100)>>
    /\ imgScale = Whole(2)

\* C10: msg_float, msg_int, bang and direct_draw leave the cache empty and a
\* repaint requested; a cached-mode paint that runs after one of them, with
\* no build since, builds the image it composites.
C10_NoStaleComposite ==
    /\ last.op \in {"msg_float", "bang", "direct_draw"} =>
          cachedImg = NoImage /\ redrawRequested
    /\ (CachedPaint /\ last.at.stale) =>
          /\ Builds(last.tr) = 1
          /\ ~stale
          /\ \A i \in Composites(last.tr) :
                \E j \in 1..(i - 1) :
                    /\ last.tr[j].op = "new Image"
                    /\ last.tr[j].img = last.tr[i].img
    /\ CachedPaint => ~stale

C10_Witness == CachedPaint /\ last.at.stale /\ Composites(last.tr) # {}

Outlets(tr, n) == {i \in 1..Len(tr) : tr[i].s = "outlet" /\ tr[i].a = <<Whole(n)>>}

\* C11: a paint sends the bang of outlet 1 once when it builds the cache or
\* draws directly and not at all on a cache hit, and sends the bang of
\* outlet 0 once, as its last call, after that of outlet 1 and all drawing.
C11_OutletSignals ==
    last.op = "paint" =>
        /\ Cardinality(Outlets(last.tr, 1)) =
              (IF ~last.at.cached \/ last.at.miss THEN 1 ELSE 0)
        /\ Outlets(last.tr, 0) = {Len(last.tr)}
        /\ \A i \in 1..(Len(last.tr) - 1) : last.tr[i].s # "outlet" \/ last.tr[i].a = <<Whole(1)>>

C11_Witness ==
    /\ CachedPaint
    /\ last.at.miss
    /\ idle = 1
    /\ Outlets(last.tr, 1) # {}

\* C12: after direct_draw(v), useImage is the negation of v: false for every
\* non-zero argument, true for zero.
C12_ModeIsNegatedArgument ==
    last.op = "direct_draw" => (useImage <=> last.arg = Whole(0))

-----------------------------------------------------------------------------
(* The script under a host that can hand paint() a surface with no width   *)
(* or no height, and whose new MGraphics(...) can fail.  A constructor     *)
(* that fails throws, and the script catches nothing: paint() ends there.  *)

DegenerateSizes == {<<Whole(0), Whole(50)>>, <<Whole(100), Whole(0)>>}

Degenerate(sz) == sz[1][1] <= 0 \/ sz[2][1] <= 0

AllocFailed(tr) == Count(tr, "tmp_mg", "new MGraphics throws") > 0

\* paint() up to the throwing new MGraphics(...): cachedImg is not assigned
ThrownResult ==
    [st  |-> Emit(Background([vm |-> matrix, tm |-> Identity, mtx |-> Identity, tr |-> <<>>]),
                  "tmp_mg", Cmd("new MGraphics throws", OffscreenSize(size, imgScale))),
     img |-> cachedImg]

paintAllocFails ==
    /\ useImage
    /\ NeedsBuild(cachedImg)
    /\ PaintStep(ThrownResult)

NextFault ==
    \/ Next
    \/ paintAllocFails
    \/ \E sz \in DegenerateSizes : Resize(sz)

FaultSpec == Init /\ [][NextFault]_vars

\* C13: a paint entered with a non-positive width or height is skipped: it
\* makes no drawing call, allocates no off-screen context and leaves
\* cachedImg as it was.
C13_DegeneratePaintSkipped ==
    (last.op = "paint" /\ Degenerate(size)) =>
        /\ last.tr = <<>>
        /\ Allocs(last.tr) = 0
        /\ last.at.miss => cachedImg = NoImage

\* C14: a cached-mode paint whose off-screen allocation fails leaves the
\* cache empty and useImage true, runs drawStuff on the on-screen context
\* instead, and completes with the bang of outlet 0.
C14_AllocFailureFallsBack ==
    (last.op = "paint" /\ AllocFailed(last.tr)) =>
        /\ cachedImg = NoImage
        /\ useImage
        /\ Draws(last.tr) = 1
        /\ Count(last.tr, "mgraphics", "show_text") = 1
        /\ Outlets(last.tr, 0) = {Len(last.tr)}

-----------------------------------------------------------------------------

Invalidators == {"msg_float", "bang", "direct_draw"}

\* C15: cachedImg starts absent; it becomes present only in a cached-mode
\* paint that finds it absent; it becomes absent only in msg_float (also
\* when called by msg_int), bang or direct_draw, each of which leaves it
\* absent whatever the argument; nothing else writes it.
C15_Step ==
    /\ (cachedImg = NoImage /\ cachedImg' # NoImage) =>
          (last'.op = "paint" /\ useImage /\ last'.at.miss)
    /\ (cachedImg # NoImage /\ cachedImg' = NoImage) => last'.op \in Invalidators
    /\ (cachedImg # NoImage /\ cachedImg' # NoImage) => cachedImg' = cachedImg
    /\ last'.op \in Invalidators => cachedImg' = NoImage

C15_Start == last.op = "init" => cachedImg = NoImage

C15_CacheLifecycle == []C15_Start /\ [][C15_Step]_vars

\* a scale message repeating the current scale, after a build
C15_Witness ==
    /\ last.op = "msg_float"
    /\ last.arg = imgScale
    /\ cachedImg = NoImage
    /\ imgSerial = 1
    /\ ~scaleDirty

-----------------------------------------------------------------------------
(* The script under a host that services a requested redraw: paint() is    *)
(* not put off forever while a request is pending.                         *)

FairSpec == Spec /\ WF_vars(paint)

Handlers == {"msg_float", "bang", "onidle", "onidleout", "direct_draw"}

C16_Requested == last.op \in Handlers => (redrawRequested /\ last.redraws = 1)

C16_Reflects ==
    last.op = "paint" =>
        /\ Overlay(last.tr) # <<>> <=> idle = 1
        /\ Composites(last.tr) # {} <=> useImage
        /\ \A i \in Composites(last.tr) : last.tr[i].img.scale = imgScale

C16_Serviced == redrawRequested ~> (~redrawRequested /\ last.op = "paint")

\* C16: every handler leaves one redraw requested; when the host services
\* requested redraws, each request is followed by a completed paint, and a
\* completed paint shows the idle flag, the mode and the scale then stored.
C16_EveryEventRepainted == []C16_Requested /\ []C16_Reflects /\ C16_Serviced

C16_Witness ==
    /\ last.op = "paint"
    /\ ~redrawRequested
    /\ idle = 1
    /\ ~useImage
    /\ imgScale = Whole(3)

-----------------------------------------------------------------------------
(* The idle indicator.                                                     *)

Blank == [vm |-> Identity, tm |-> Identity, mtx |-> Identity, tr |-> <<>>]

\* C17: a paint made while idle is set draws the indicator after the content
\* and before outlet(0, "bang"), under the identity transform: the calls are
\* those made on an untransformed context, whatever the mode and the scale,
\* and on the cached path the composite before them was under 1/imgScale.
C17_IndicatorUnscaledOverlay ==
    (last.op = "paint" /\ idle = 1) =>
        /\ ContentEnd(last.tr) > 0
        /\ Overlay(last.tr) = Indicator(Blank).tr
        /\ \A i \in ContentEnd(last.tr) + 1 .. Len(last.tr) - 1 :
              /\ last.tr[i].s = "mgraphics"
              /\ last.tr[i].m = Identity
        /\ last.tr[Len(last.tr)].s = "outlet"
        /\ last.tr[Len(last.tr)].a = <<Whole(0)>>
        /\ \A i \in 1..ContentEnd(last.tr) : last.tr[i].c # "live_active_automation"
        /\ useImage =>
              /\ Composites(last.tr) # {}
              /\ \A i \in Composites(last.tr) :
                    /\ i < ContentEnd(last.tr)
                    /\ last.tr[i].m.xx = RDiv(Whole(1), imgScale)
        /\ ~useImage => Draws(ContentOf(last.tr)) = 1

C17_Witness ==
    /\ last.op = "paint"
    /\ idle = 1
    /\ useImage
    /\ imgScale = Rat(1, 8)
    /\ Len(Overlay(last.tr)) = 3

-----------------------------------------------------------------------------
(* The transform around drawStuff.                                         *)

\* the first call of each run of drawStuff in a trace
Entries(tr) == {e \in 1..Len(tr) : tr[e].op = "set_line_width"}

\* C18: in every run of drawStuff the calls from the rectangle to set_matrix
\* are made under the entry transform translated by (1.5, 1.5), and every
\* later call on that context, in drawStuff and after it returns, is made
\* under the entry transform itself; on the off-screen context that is the
\* scale by imgScale, still in effect at new Image(tmp_mg).
C18_DrawStuffRestoresTransform ==
    last.op = "paint" =>
        \A e \in Entries(last.tr) :
            /\ e + 15 <= Len(last.tr)
            /\ last.tr[e + 8].op = "set_matrix"
            /\ last.tr[e + 14].op = "show_text"
            /\ \A i \in e .. e + 2 : last.tr[i].m = last.tr[e].m
            /\ \A i \in e + 3 .. e + 8 :
                  last.tr[i].m = translate(last.tr[e].m, Rat(3, 2), Rat(3, 2))
            /\ \A i \in e + 9 .. Len(last.tr) :
                  (last.tr[i].s = last.tr[e].s /\ i <= ContentEnd(last.tr)
                   /\ last.tr[i].op \notin {"scale", "image_surface_draw", "identity_matrix"})
                      => last.tr[i].m = last.tr[e].m
            /\ last.tr[e].s = "tmp_mg" =>
                  /\ last.tr[e].m = scale(Identity, imgScale, imgScale)
                  /\ last.tr[e + 16].op = "new Image"
                  /\ last.tr[e + 16].m = scale(Identity, imgScale, imgScale)
            /\ last.tr[e].s = "mgraphics" =>
                  \A i \in e + 16 .. Len(last.tr) - 1 : last.tr[i].m = last.tr[e].m

C18_Witness ==
    /\ last.op = "paint"
    /\ useImage
    /\ Builds(last.tr) = 1
    /\ imgScale = Whole(3)
    /\ \E e \in Entries(last.tr) : last.tr[e + 14].m.xx = Whole(3)

-----------------------------------------------------------------------------
(* Who writes the script's variables.                                      *)

C19_Step ==
    /\ last'.op = "paint" => UNCHANGED <<useImage, imgScale, idle>>
    /\ imgScale' # imgScale => last'.op = "msg_float"
    /\ idle' # idle => last'.op \in {"onidle", "onidleout"}
    /\ useImage' # useImage => last'.op = "direct_draw"

\* C19: a paint leaves useImage, imgScale and idle as they were, with or
\* without a rebuild; imgScale changes only in msg_float (msg_int calls it),
\* idle only in onidle and onidleout, useImage only in direct_draw.
C19_RenderStateReadOnlyInPaint == [][C19_Step]_vars

C19_Witness ==
    /\ last.op = "paint"
    /\ useImage
    /\ Builds(last.tr) = 1
    /\ idle = 1
    /\ imgScale = Rat(1, 2)

-----------------------------------------------------------------------------
(* Direct mode.                                                            *)

\* C20: while useImage is false there is no cached Image, and a paint made
\* in that mode runs drawStuff once on the jsui's own context, with no scale
\* call, no off-screen context and no new Image.
C20_DirectModeHasNoCache ==
    ~useImage =>
        /\ cachedImg = NoImage
        /\ last.op = "paint" =>
              /\ Draws(last.tr) = 1
              /\ \E e \in Entries(last.tr) : last.tr[e].s = "mgraphics"
              /\ Allocs(last.tr) = 0
              /\ Builds(last.tr) = 0
              /\ Composites(last.tr) = {}
              /\ Where(last.tr, "mgraphics", "scale") = {}
              /\ \A i \in 1..Len(last.tr) : last.tr[i].s # "tmp_mg"

C20_Witness ==
    /\ last.op = "paint"
    /\ ~useImage
    /\ idle = 1
    /\ imgScale = Whole(8)
    /\ Draws(last.tr) = 1

====
